---- MODULE Spec2Model ----
(***************************************************************************)
(* Curve Finance models of models/credmark/protocols/dexes/curve/          *)
(* curve_finance.py as state machines:                                     *)
(*   - curve-fi.pool-info   (CurveFinancePoolInfo.run), specification Spec *)
(*   - curve-fi.all-gauges  (CurveFinanceAllGauges.run), SpecGauges        *)
(*   - curve-fi.gauge-yield (CurveFinanceAverageGaugeYield.run), SpecYield *)
(*   - the concentration ratio of pool-info on its own, SpecRatio          *)
(*                                                                         *)
(* Every contract read is a step whose answer the chain chooses: a value,  *)
(* or one of the exception kinds the code tells apart.  18-decimal         *)
(* fixed-point quantities (virtual price, wei amounts of the gauge) are    *)
(* held in units of 10^18, token amounts in whole-token units, so that the *)
(* divisions of the code are exact.                                        *)
(***************************************************************************)
EXTENDS Integers, Sequences, FiniteSets, TLC

VARIABLES
    \* ---- curve-fi.pool-info
    pc,                 \* position in CurveFinancePoolInfo.run
    input,              \* the pool contract the run is resolving
    depth,              \* nested runs on the call stack (minter redirections)
    minter_addr,        \* the minter read for the redirection, NullAddr before
    use_registry,
    balances_tokens,    \* registry.get_balances result
    coins,              \* registry.get_coins result
    underlying_coins,   \* registry.get_underlying_coins result
    tokens, tokens_symbol,
    balances, balances_token, admin_fees,
    underlying, underlying_symbol,
    token_prices, ratio,
    virtual_price, pool_A, chi, is_meta, name,
    lp_token_addr, lp_token_name,
    pool_token_addr, pool_token_name,
    i,                  \* loop index of the direct-introspection loop
    probes,             \* the slot probes made, in order: [index, rejected]
    probeEnd,           \* how the probing loop ended
    lpTried,            \* LP-token sources consulted, in order, with outcome
    exc,                \* the exception that left run(), if any
    held,               \* chain state: balance of each token held by the pool
    reserve,            \* chain state: the pool's recorded balance per coin
    \* ---- curve-fi.all-gauges
    gpc, gaugeSlots, gi, gauges, gaugeReads,
    \* ---- curve-fi.gauge-yield
    ypc, series, pool_virtual_price, yields, yieldResult,
    \* ---- concentration ratio on its own
    rpc, np_held, np_prices, np_exact, np_ratio

poolVars == <<pc, input, depth, minter_addr, use_registry, balances_tokens, coins,
              underlying_coins, tokens,
              tokens_symbol, balances, balances_token, admin_fees, underlying,
              underlying_symbol, token_prices, ratio, virtual_price, pool_A,
              chi, is_meta, name, lp_token_addr, lp_token_name,
              pool_token_addr, pool_token_name, i, probes, probeEnd, lpTried,
              exc, held, reserve>>
gaugeVars == <<gpc, gaugeSlots, gi, gauges, gaugeReads>>
yieldVars == <<ypc, series, pool_virtual_price, yields, yieldResult>>
ratioVars == <<rpc, np_held, np_prices, np_exact, np_ratio>>
vars == <<poolVars, gaugeVars, yieldVars, ratioVars>>

inVars    == <<input, depth, minter_addr>>
regVars   == <<use_registry, balances_tokens, coins, underlying_coins>>
tokVars   == <<tokens, tokens_symbol, balances, underlying, underlying_symbol>>
probeVars == <<i, probes, probeEnd>>
heldVars  == <<balances_token, admin_fees>>
priceVars == <<token_prices, ratio>>
fieldVars == <<virtual_price, pool_A, chi, is_meta, name>>
lpVars    == <<lp_token_addr, lp_token_name, lpTried>>
ptVars    == <<pool_token_addr, pool_token_name>>
chainVars == <<held, reserve>>

-----------------------------------------------------------------------------
(* Addresses and values of the chain.                                      *)

NullAddr == "0x0000000000000000000000000000000000000000"
EthAddr  == "0xeeeeeeeeeeeeeeeeeeeeeeeeeeeeeeeeeeeeeeee"
TokA     == "0xaaaa"
TokenAddrs == {TokA, EthAddr}
\* what the registry's address arrays hold, and what a pool's coins(i) holds
RegistryAddrs == TokenAddrs \cup {NullAddr}
PoolCoins     == {TokA}

Pool1   == "pool1"
Minter1 == "minter1"

LpReg    == "lpFromRegistry"
LpPool   == "lpFromPool"
LpLegacy == "lpFromPoolInfo"
PoolTok  == "poolToken"

\* exception kinds the handlers of run() tell apart
CLE      == "ContractLogicError"
NotFound == "ABIFunctionNotFound"
Other    == "OtherError"
Kinds    == {CLE, NotFound, Other}

\* bounds of the model
RegistrySlots == 2      \* width of the registry's fixed-size arrays
MaxDepth      == 1      \* minter redirections followed
MaxAmount     == 2      \* token amounts are 1..MaxAmount

\* program constants
ProbeCap            == 8    \* for i in range(8)
DefaultVirtualPrice == 1    \* 10**18, in units of 10^18
DefaultA            == 0

Amounts       == 1..MaxAmount
VirtualPrices == {1, 2}     \* get_virtual_price(), in units of 10^18
AValues       == {5}        \* A()
PoolNames     == {"3pool"}  \* name()

\* Token.symbol / Token.name: reads of the token contract
TokenSymbol(t) == IF t = TokA THEN "TKA" ELSE "SYM"
TokenName(a)   == <<"name of", a>>

\* price.quote / curve-fi.price / price_for_derived: a black-box price source
PriceOf(t) == IF t = EthAddr THEN 2 ELSE 1

\* Token.scaled(raw) and web3.fromWei(raw, 'ether'): raw / 10^decimals, with
\* raw amounts held in whole-token units.
Scaled(t, raw) == raw

RECURSIVE SeqSum(_)
SeqSum(s) == IF s = <<>> THEN 0 ELSE Head(s) + SeqSum(Tail(s))

RECURSIVE SeqProd(_)
SeqProd(s) == IF s = <<>> THEN 1 ELSE Head(s) * SeqProd(Tail(s))

RECURSIVE Pow(_, _)
Pow(b, e) == IF e = 0 THEN 1 ELSE b * Pow(b, e - 1)

Min(a, b) == IF a < b THEN a ELSE b
Prefix(s, n) == SubSeq(s, 1, Min(n, Len(s)))
\* zip(a, b) stops at the shorter argument
ZipLen(a, b) == Min(Len(a), Len(b))
Range(s) == {s[k] : k \in 1..Len(s)}

-----------------------------------------------------------------------------
(* curve-fi.pool-info                                                      *)

\* a check_token_address that drops the native sentinel as well
KeepAddress_DropsSentinel(addr) == addr # NullAddr /\ addr # EthAddr

\* check_token_address: `if tok_addr != Address.null()`
KeepAddress(addr) == addr # NullAddr

\* check_token_address: symbols_list.append('ETH') for the native sentinel
SymbolFor(addr) == IF addr = EthAddr THEN "ETH" ELSE TokenSymbol(addr)

RECURSIVE check_token_address(_)
check_token_address(addrs) ==
    IF addrs = <<>> THEN [token_list |-> <<>>, symbols_list |-> <<>>]
    ELSE LET rest == check_token_address(Tail(addrs))
         IN  IF KeepAddress(Head(addrs))
             THEN [token_list   |-> <<Head(addrs)>> \o rest.token_list,
                   symbols_list |-> <<SymbolFor(Head(addrs))>> \o rest.symbols_list]
             ELSE rest

\* balances_raw = balances_tokens[:len(tokens_symbol)];
\* balances = [t.scaled(bal) ... for bal, t in zip(balances_raw, tokens)]
RegistryBalances(bals, toks, syms) ==
    LET balances_raw == Prefix(bals, Len(syms))
    IN  [k \in 1..ZipLen(balances_raw, toks) |-> Scaled(toks[k], balances_raw[k])]

\* balances_token = [t.scaled(t.functions.balanceOf(input.address).call()) ...
\*                   for t in tokens]
BalancesToken(toks, h) == [k \in 1..Len(toks) |-> Scaled(toks[k], h[toks[k]])]

\* admin_fees = [bal_token-bal for bal, bal_token in zip(balances, balances_token)]
AdminFees(bals, bts) == [k \in 1..ZipLen(bals, bts) |-> bts[k] - bals[k]]

\* np_balance = np.array(balances_token) * np.array(token_prices)
NpBalance(bt, prices) == [k \in 1..ZipLen(bt, prices) |-> bt[k] * prices[k]]

\* a ratio whose avg_balance is the sum, not the mean
Ratio_SumAsMean(np_balance) ==
    [prod |-> SeqProd(np_balance),
     sum  |-> SeqSum(np_balance),
     div  |-> 1,
     n    |-> Len(np_balance)]

\* product_balance = np_balance.prod(); avg_balance = np_balance.mean();
\* ratio = product_balance / np.power(avg_balance, n_asset), before any
\* rounding: the exact fraction prod / (sum / div)^n with div = n_asset.
Ratio(np_balance) ==
    [prod |-> SeqProd(np_balance),
     sum  |-> SeqSum(np_balance),
     div  |-> Len(np_balance),
     n    |-> Len(np_balance)]

\* chi = pool_A * ratio
Chi(a, r) == [r EXCEPT !.prod = a * r.prod]

NoExc == [site |-> "none", kind |-> "none"]

\* an exception leaves run(): the run of the outermost call has raised, a
\* nested run hands it to the run_model call that started it
Raise(site, kind) ==
    /\ pc' = IF depth = 0 THEN "raised" ELSE "nested_raised"
    /\ exc' = [site |-> site, kind |-> kind]

PoolStart(at) ==
    /\ pc = at
    /\ input = Pool1
    /\ depth = 0
    /\ minter_addr = NullAddr
    /\ use_registry = TRUE
    /\ balances_tokens = <<>>
    /\ coins = <<>>
    /\ underlying_coins = <<>>
    /\ tokens = <<>>
    /\ tokens_symbol = <<>>
    /\ balances = <<>>
    /\ balances_token = <<>>
    /\ admin_fees = <<>>
    /\ underlying = <<>>
    /\ underlying_symbol = <<>>
    /\ token_prices = <<>>
    /\ ratio = Ratio(<<>>)
    /\ virtual_price = 0
    /\ pool_A = 0
    /\ chi = Ratio(<<>>)
    /\ is_meta = FALSE
    /\ name = ""
    /\ lp_token_addr = NullAddr
    /\ lp_token_name = ""
    /\ pool_token_addr = NullAddr
    /\ pool_token_name = ""
    /\ i = 0
    /\ probes = <<>>
    /\ probeEnd = "none"
    /\ lpTried = <<>>
    /\ exc = NoExc

PoolInit ==
    /\ PoolStart("get_balances")
    /\ \E a \in Amounts : held = [t \in TokenAddrs |-> a]
    /\ reserve = 1

PoolIdle ==
    /\ PoolStart("idle")
    /\ held = [t \in TokenAddrs |-> 1]
    /\ reserve = 1

\* registry.functions.get_balances(input.address.checksum).call()
GetBalances ==
    /\ pc = "get_balances"
    /\ \/ /\ balances_tokens' = [k \in 1..RegistrySlots |-> reserve]
          /\ pc' = "get_coins"
          /\ UNCHANGED exc
       \/ /\ pc' = "minter"              \* except ContractLogicError
          /\ UNCHANGED <<balances_tokens, exc>>
       \/ \E k \in Kinds \ {CLE} :
            /\ Raise("get_balances", k)
            /\ UNCHANGED balances_tokens
    /\ UNCHANGED <<inVars, use_registry, coins, underlying_coins, tokVars,
                   probeVars, heldVars, priceVars, fieldVars, lpVars, ptVars,
                   chainVars>>

\* minter_addr = input.functions.minter().call();
\* return self.context.run_model(self.slug, input=Contract(minter_addr)).
\* The nested run's result is returned as it is, so the run goes on as the
\* run on the minter's address.
Minter ==
    /\ pc = "minter"
    /\ \/ /\ depth < MaxDepth
          /\ minter_addr' = Minter1
          /\ input' = Minter1
          /\ depth' = depth + 1
          /\ pc' = "get_balances"
          /\ UNCHANGED <<regVars, exc>>
       \/ /\ pc' = "probe"               \* except ABIFunctionNotFound: pass
          /\ balances_tokens' = <<>>
          /\ use_registry' = FALSE
          /\ UNCHANGED <<inVars, coins, underlying_coins, exc>>
       \/ \E k \in Kinds \ {NotFound} :
            /\ Raise("minter", k)
            /\ UNCHANGED <<inVars, regVars>>
    /\ UNCHANGED <<tokVars, probeVars, heldVars, priceVars, fieldVars, lpVars,
                   ptVars, chainVars>>

\* the input of the run at stack depth d
InputAt(d) == IF d = 0 THEN Pool1 ELSE Minter1

\* the locals of the run that made the run_model call, as they are at the
\* call: nothing assigned yet but balances = [] and use_registry = True
CallerLocals ==
    /\ coins' = <<>> /\ underlying_coins' = <<>>
    /\ tokens' = <<>> /\ tokens_symbol' = <<>> /\ balances' = <<>>
    /\ underlying' = <<>> /\ underlying_symbol' = <<>>
    /\ i' = 0 /\ probes' = <<>> /\ probeEnd' = "none"
    /\ balances_token' = <<>> /\ admin_fees' = <<>>
    /\ token_prices' = <<>> /\ ratio' = Ratio(<<>>)
    /\ virtual_price' = 0 /\ pool_A' = 0 /\ chi' = Ratio(<<>>)
    /\ is_meta' = FALSE /\ name' = ""
    /\ lp_token_addr' = NullAddr /\ lp_token_name' = "" /\ lpTried' = <<>>
    /\ pool_token_addr' = NullAddr /\ pool_token_name' = ""

\* try: ... return self.context.run_model(self.slug, input=Contract(minter_addr))
\* except ABIFunctionNotFound: pass
\* balances_tokens = []; use_registry = False
\* The run_model call sits inside the try block. The failure of the nested
\* run comes out of it as the host surfaces it: with the kind it was raised
\* with, or as the host's own error. An ABIFunctionNotFound is caught by the
\* handler and the calling run goes on with its own direct introspection;
\* anything else leaves the calling run as well.
RunModelRaises ==
    /\ pc = "nested_raised"
    /\ \E surfaced \in {exc.kind, Other} :
          IF surfaced = NotFound
          THEN /\ pc' = "probe"
               /\ exc' = NoExc
               /\ balances_tokens' = <<>>
               /\ use_registry' = FALSE
          ELSE /\ pc' = IF depth - 1 = 0 THEN "raised" ELSE "nested_raised"
               /\ exc' = [site |-> exc.site, kind |-> surfaced]
               /\ balances_tokens' = <<>>
               /\ use_registry' = TRUE
    /\ CallerLocals
    /\ depth' = depth - 1
    /\ input' = InputAt(depth - 1)
    /\ UNCHANGED <<minter_addr, chainVars>>

\* coins = registry.functions.get_coins(...).call();
\* tokens, tokens_symbol = self.check_token_address(coins)
GetCoins ==
    /\ pc = "get_coins"
    /\ \/ \E got \in [1..RegistrySlots -> RegistryAddrs] :
            LET r == check_token_address(got)
            IN  /\ coins' = got
                /\ tokens' = r.token_list
                /\ tokens_symbol' = r.symbols_list
                /\ pc' = "get_underlying"
                /\ UNCHANGED exc
       \/ \E k \in Kinds :
            /\ Raise("get_coins", k)
            /\ UNCHANGED <<coins, tokens, tokens_symbol>>
    /\ UNCHANGED <<inVars, use_registry, balances_tokens, underlying_coins,
                   balances, underlying, underlying_symbol, probeVars,
                   heldVars, priceVars, fieldVars, lpVars, ptVars, chainVars>>

\* underlying_coins = registry.functions.get_underlying_coins(...).call();
\* underlying, underlying_symbol = self.check_token_address(underlying_coins);
\* then balances from balances_tokens
GetUnderlyingCoins ==
    /\ pc = "get_underlying"
    /\ \/ \E got \in [1..RegistrySlots -> RegistryAddrs] :
            LET r == check_token_address(got)
            IN  /\ underlying_coins' = got
                /\ underlying' = r.token_list
                /\ underlying_symbol' = r.symbols_list
                /\ balances' = RegistryBalances(balances_tokens, tokens,
                                                tokens_symbol)
                /\ pc' = "balances_token"
                /\ UNCHANGED exc
       \/ \E k \in Kinds :
            /\ Raise("get_underlying_coins", k)
            /\ UNCHANGED <<underlying_coins, balances, underlying,
                           underlying_symbol>>
    /\ UNCHANGED <<inVars, use_registry, balances_tokens, coins, tokens,
                   tokens_symbol, probeVars, heldVars, priceVars, fieldVars,
                   lpVars, ptVars, chainVars>>

Probe(index, rejected) == [index |-> index, rejected |-> rejected]

\* the end of one iteration of `for i in range(8)`
ProbeNext ==
    /\ probes' = Append(probes, Probe(i, FALSE))
    /\ i' = i + 1
    /\ IF i + 1 < ProbeCap
       THEN pc' = "probe" /\ probeEnd' = probeEnd
       ELSE pc' = "balances_token" /\ probeEnd' = "exhausted"
    /\ UNCHANGED exc

\* a loop that goes on to the next slot after a rejection
ProbeBreak_Continues ==
    /\ probes' = Append(probes, Probe(i, TRUE))
    /\ i' = i + 1
    /\ IF i + 1 < ProbeCap
       THEN pc' = "probe" /\ probeEnd' = probeEnd
       ELSE pc' = "balances_token" /\ probeEnd' = "exhausted"
    /\ UNCHANGED exc

\* except ContractLogicError: break
ProbeBreak ==
    /\ probes' = Append(probes, Probe(i, TRUE))
    /\ pc' = "balances_token"
    /\ probeEnd' = "break"
    /\ i' = i
    /\ UNCHANGED exc

\* any other exception leaves run()
ProbeRaise(site, kind) ==
    /\ probes' = Append(probes, Probe(i, FALSE))
    /\ Raise(site, kind)
    /\ UNCHANGED <<i, probeEnd>>

\* one iteration of the direct-introspection loop:
\*   tok_addr = Address(input.functions.coins(i).call()); tokens.append(token);
\*   tokens_symbol.append(token.symbol);
\*   balances.append(token.scaled(input.functions.balances(i).call()));
\*   und = input.functions.underlying_coins(i).call() ...
ProbeSlot ==
    /\ pc = "probe"
    /\ \/ /\ ProbeBreak                   \* coins(i): ContractLogicError
          /\ UNCHANGED tokVars
       \/ \E k \in Kinds \ {CLE} :
            /\ ProbeRaise("coins", k)
            /\ UNCHANGED tokVars
       \/ \E t \in PoolCoins :
            /\ tokens' = Append(tokens, t)
            /\ \/ /\ ProbeBreak           \* token.symbol: ContractLogicError
                  /\ UNCHANGED <<tokens_symbol, balances, underlying,
                                 underlying_symbol>>
               \/ \E k \in Kinds \ {CLE} :
                    /\ ProbeRaise("symbol", k)
                    /\ UNCHANGED <<tokens_symbol, balances, underlying,
                                   underlying_symbol>>
               \/ /\ tokens_symbol' = Append(tokens_symbol, TokenSymbol(t))
                  /\ \/ /\ ProbeBreak     \* balances(i): ContractLogicError
                        /\ UNCHANGED <<balances, underlying, underlying_symbol>>
                     \/ \E k \in Kinds \ {CLE} :
                          /\ ProbeRaise("balances", k)
                          /\ UNCHANGED <<balances, underlying,
                                         underlying_symbol>>
                     \/ /\ balances' = Append(balances, Scaled(t, reserve))
                        /\ \/ /\ ProbeNext  \* underlying_coins(i): except
                                            \* (ABIFunctionNotFound,
                                            \*  ContractLogicError): pass
                              /\ UNCHANGED <<underlying, underlying_symbol>>
                           \/ /\ ProbeRaise("underlying_coins", Other)
                              /\ UNCHANGED <<underlying, underlying_symbol>>
                           \/ \E u \in PoolCoins :
                                \* underlying.append(und): und is the address
                                \* the call returned, und.symbol raises
                                \* AttributeError
                                /\ underlying' = Append(underlying, u)
                                /\ ProbeRaise("und.symbol", Other)
                                /\ UNCHANGED underlying_symbol
    /\ UNCHANGED <<inVars, regVars, heldVars, priceVars, fieldVars, lpVars,
                   ptVars, chainVars>>

\* balances_token = [...]; admin_fees = [...]
ReadHeldBalances ==
    /\ pc = "balances_token"
    /\ \/ /\ balances_token' = BalancesToken(tokens, held)
          /\ admin_fees' = AdminFees(balances, balances_token')
          /\ pc' = "prices"
          /\ UNCHANGED exc
       \/ /\ tokens # <<>>
          /\ \E k \in Kinds : Raise("balanceOf", k)
          /\ UNCHANGED heldVars
    /\ UNCHANGED <<inVars, regVars, tokVars, probeVars, priceVars, fieldVars,
                   lpVars, ptVars, chainVars>>

\* token_prices; np_balance; ratio = product_balance / np.power(avg_balance, n_asset)
PricesAndRatio ==
    /\ pc = "prices"
    /\ \/ /\ token_prices' = [k \in 1..Len(tokens) |-> PriceOf(tokens[k])]
          /\ ratio' = Ratio(NpBalance(balances_token, token_prices'))
          /\ pc' = "virtual_price"
          /\ UNCHANGED exc
       \/ /\ tokens # <<>>
          /\ \E k \in Kinds : Raise("price", k)
          /\ UNCHANGED priceVars
    /\ UNCHANGED <<inVars, regVars, tokVars, probeVars, heldVars, fieldVars,
                   lpVars, ptVars, chainVars>>

\* try: virtual_price = input.functions.get_virtual_price().call()
\* except Exception: virtual_price = (10**18)
ReadVirtualPrice ==
    /\ pc = "virtual_price"
    /\ \/ \E v \in VirtualPrices : virtual_price' = v
       \/ virtual_price' = DefaultVirtualPrice
    /\ pc' = "A"
    /\ UNCHANGED <<pool_A, chi, is_meta, name, exc>>
    /\ UNCHANGED <<inVars, regVars, tokVars, probeVars, heldVars, priceVars,
                   lpVars, ptVars, chainVars>>

\* try: pool_A = input.functions.A().call() except Exception: pool_A = 0;
\* chi = pool_A * ratio
ReadA ==
    /\ pc = "A"
    /\ \/ \E a \in AValues : pool_A' = a
       \/ pool_A' = DefaultA
    /\ chi' = Chi(pool_A', ratio)
    /\ pc' = "is_meta"
    /\ UNCHANGED <<virtual_price, is_meta, name, exc>>
    /\ UNCHANGED <<inVars, regVars, tokVars, probeVars, heldVars, priceVars,
                   lpVars, ptVars, chainVars>>

\* is_meta = registry.functions.is_meta(input.address.checksum).call()
ReadIsMeta ==
    /\ pc = "is_meta"
    /\ \/ /\ is_meta' \in BOOLEAN
          /\ pc' = "name"
          /\ UNCHANGED exc
       \/ /\ \E k \in Kinds : Raise("is_meta", k)
          /\ UNCHANGED is_meta
    /\ UNCHANGED <<virtual_price, pool_A, chi, name>>
    /\ UNCHANGED <<inVars, regVars, tokVars, probeVars, heldVars, priceVars,
                   lpVars, ptVars, chainVars>>

\* try: name = input.functions.name().call() except Exception: name = ""
ReadName ==
    /\ pc = "name"
    /\ \/ name' \in PoolNames
       \/ name' = ""
    /\ pc' = "lp_registry"
    /\ UNCHANGED <<virtual_price, pool_A, chi, is_meta, exc>>
    /\ UNCHANGED <<inVars, regVars, tokVars, probeVars, heldVars, priceVars,
                   lpVars, ptVars, chainVars>>

Tried(src, ok, value) == [src |-> src, ok |-> ok, value |-> value]

\* try: lp_token_addr = Address(registry.functions.get_lp_token(input.address).call())
\* except ABIFunctionNotFound: (the pool's lp_token)
LpFromRegistry ==
    /\ pc = "lp_registry"
    /\ \/ \E v \in {LpReg, NullAddr} :
            /\ lp_token_addr' = v
            /\ lpTried' = Append(lpTried, Tried("registry", TRUE, v))
            /\ pc' = "lp_name"
            /\ UNCHANGED exc
       \/ /\ lpTried' = Append(lpTried, Tried("registry", FALSE, NotFound))
          /\ pc' = "lp_pool"
          /\ UNCHANGED <<lp_token_addr, exc>>
       \/ \E k \in Kinds \ {NotFound} :
            /\ lpTried' = Append(lpTried, Tried("registry", FALSE, k))
            /\ Raise("get_lp_token", k)
            /\ UNCHANGED lp_token_addr
    /\ UNCHANGED <<lp_token_name, inVars, regVars, tokVars, probeVars,
                   heldVars, priceVars, fieldVars, ptVars, chainVars>>

\* try: lp_token_addr = Address(input.functions.lp_token().call())
\* except ABIFunctionNotFound: (the legacy pool-info registry)
LpFromPool ==
    /\ pc = "lp_pool"
    /\ \/ \E v \in {LpPool} :
            /\ lp_token_addr' = v
            /\ lpTried' = Append(lpTried, Tried("pool", TRUE, v))
            /\ pc' = "lp_name"
            /\ UNCHANGED exc
       \/ /\ lpTried' = Append(lpTried, Tried("pool", FALSE, NotFound))
          /\ pc' = "lp_legacy"
          /\ UNCHANGED <<lp_token_addr, exc>>
       \/ \E k \in Kinds \ {NotFound} :
            /\ lpTried' = Append(lpTried, Tried("pool", FALSE, k))
            /\ Raise("lp_token", k)
            /\ UNCHANGED lp_token_addr
    /\ UNCHANGED <<lp_token_name, inVars, regVars, tokVars, probeVars,
                   heldVars, priceVars, fieldVars, ptVars, chainVars>>

\* the tuple get_pool_info returns: the LP-token address is element [5]
PoolInfoTuple(lp) == <<"balances", "underlying_balances", "decimals",
                       "underlying_decimals", "rates", lp, "A", "fee">>
\* the index taken 1-based
LpOfPoolInfo_OneBased(pool_info) == pool_info[5]

\* pool_info[5], a 0-based index
LpOfPoolInfo(pool_info) == pool_info[5 + 1]

\* try: provider = ...get-provider; pool_info_addr = provider.get_address(1);
\*      pool_info = pool_info_contract.get_pool_info(input); Address(pool_info[5])
\* except ContractLogicError: pass
LpFromPoolInfo ==
    /\ pc = "lp_legacy"
    /\ \/ \E v \in {LpLegacy} :
            /\ lp_token_addr' = LpOfPoolInfo(PoolInfoTuple(v))
            /\ lpTried' = Append(lpTried, Tried("pool_info", TRUE, v))
            /\ pc' = "lp_name"
            /\ UNCHANGED exc
       \/ /\ lpTried' = Append(lpTried, Tried("pool_info", FALSE, CLE))
          /\ pc' = "lp_name"
          /\ UNCHANGED <<lp_token_addr, exc>>
       \/ \E k \in Kinds \ {CLE} :
            /\ lpTried' = Append(lpTried, Tried("pool_info", FALSE, k))
            /\ Raise("get_pool_info", k)
            /\ UNCHANGED lp_token_addr
    /\ UNCHANGED <<lp_token_name, inVars, regVars, tokVars, probeVars,
                   heldVars, priceVars, fieldVars, ptVars, chainVars>>

\* if lp_token_addr != Address.null(): lp_token_name = Token(...).name
LpName ==
    /\ pc = "lp_name"
    /\ \/ /\ lp_token_addr = NullAddr
          /\ pc' = "pool_token"
          /\ UNCHANGED <<lp_token_name, exc>>
       \/ /\ lp_token_addr # NullAddr
          /\ lp_token_name' = TokenName(lp_token_addr)
          /\ pc' = "pool_token"
          /\ UNCHANGED exc
       \/ /\ lp_token_addr # NullAddr
          /\ \E k \in Kinds : Raise("lp_token.name", k)
          /\ UNCHANGED lp_token_name
    /\ UNCHANGED <<lp_token_addr, lpTried, inVars, regVars, tokVars, probeVars,
                   heldVars, priceVars, fieldVars, ptVars, chainVars>>

\* try: pool_token_addr = Address(input.functions.token().call());
\*      pool_token_name = Token(...).name
\* except ABIFunctionNotFound: pass
\* return CurveFiPoolInfo(...)
PoolToken ==
    /\ pc = "pool_token"
    /\ \/ /\ pool_token_addr' = PoolTok
          /\ pool_token_name' = TokenName(PoolTok)
          /\ pc' = "done"
          /\ UNCHANGED exc
       \/ /\ pc' = "done"                \* except ABIFunctionNotFound: pass
          /\ UNCHANGED <<ptVars, exc>>
       \/ \E k \in Kinds \ {NotFound} :
            /\ Raise("token", k)
            /\ UNCHANGED ptVars
    /\ UNCHANGED <<inVars, regVars, tokVars, probeVars, heldVars, priceVars,
                   fieldVars, lpVars, chainVars>>

-----------------------------------------------------------------------------
(* curve-fi.all-gauges                                                     *)

MaxGaugeSlots == 4      \* bound: gauge slots the controller has set
GaugeAddrs == {"gaugeA", "gaugeB"}

\* gauge_controller.functions.gauges(i).call(): a slot never set reads null
GaugeAt(slots, idx) == IF idx < Len(slots) THEN slots[idx + 1] ELSE NullAddr

\* if address == Address.null(): break
GaugeLoopEnds(address) == address = NullAddr

\* a gauge list built back to front
GaugesAppend_Prepend(gs, address) == <<address>> \o gs

\* gauges.append(Contract(address=address))
GaugesAppend(gs, address) == Append(gs, address)

GaugeIdle ==
    /\ gpc = "idle" /\ gaugeSlots = <<>> /\ gi = 0 /\ gauges = <<>>
    /\ gaugeReads = <<>>

GaugeInit ==
    /\ gpc = "loop"
    /\ gaugeSlots \in [1..MaxGaugeSlots -> GaugeAddrs \cup {NullAddr}]
    /\ gi = 0
    /\ gauges = <<>>
    /\ gaugeReads = <<>>

\* one iteration of `while True`
ReadGauge ==
    /\ gpc = "loop"
    /\ LET address == GaugeAt(gaugeSlots, gi)
       IN  /\ gaugeReads' = Append(gaugeReads, gi)
           /\ IF GaugeLoopEnds(address)
              THEN /\ gpc' = "done"     \* return Contracts(contracts=gauges)
                   /\ UNCHANGED <<gauges, gi>>
              ELSE /\ gauges' = GaugesAppend(gauges, address)
                   /\ gi' = gi + 1
                   /\ gpc' = "loop"
    /\ UNCHANGED gaugeSlots

-----------------------------------------------------------------------------
(* curve-fi.gauge-yield.  Wei amounts (claimable_tokens, balanceOf,        *)
(* working_balances, the virtual price) are in units of 10^18.             *)

MaxSnapshots == 3       \* bound: snapshots of the historical series
CRV_PRICE    == 3       \* CRV_PRICE = 3.0

Staker1 == "staker1"
Staker2 == "staker2"

Sample(a, wb, bal, cl) ==
    [address |-> a, working_balances |-> wb, balanceOf |-> bal,
     claimable_tokens |-> cl]

\* the samples curve-fi.get-gauge-stake-and-claimable-rewards can give
Staker1Samples ==
    {Sample(Staker1, 1, 1, 1), Sample(Staker1, 1, 1, 2), Sample(Staker1, 1, 2, 1),
     Sample(Staker1, 0, 1, 1), Sample(Staker1, 1, 0, 1), Sample(Staker1, 1, 1, 0)}
Staker2Samples ==
    {Sample(Staker2, 1, 1, 1), Sample(Staker2, 1, 1, 2)}
\* one output['yields'] list: one entry per distinct address, in ledger order
Snapshots ==
    {<<>>} \cup {<<a>> : a \in Staker1Samples} \cup {<<b>> : b \in Staker2Samples}
    \cup {<<a, b>> : a \in Staker1Samples, b \in Staker2Samples}
SeriesOfLen(n) == [1..n -> Snapshots]
AllSeries == UNION {SeriesOfLen(n) : n \in 0..MaxSnapshots}

\* a filter that leaves out the claimable_tokens test
AllNonZero_NoClaimableTest(y) ==
    /\ y.working_balances # 0
    /\ y.balanceOf # 0

\* the three `== 0: continue` tests on a sample
AllNonZero(y) ==
    /\ y.working_balances # 0
    /\ y.balanceOf # 0
    /\ y.claimable_tokens # 0

\* a pairing that does not compare the staked balances
SameStake_Any(y1, y2) == TRUE

\* if y1['balanceOf'] == y2['balanceOf']
SameStake(y1, y2) == y1.balanceOf = y2.balanceOf

\* y_rewards_value + y_liquidity_value
PortfolioValue(y, vp) == y.claimable_tokens * CRV_PRICE + y.balanceOf * vp

\* a test that also drops a staker whose value did not change
SkipsGrowth_OrEqual(old, new) == old >= new

\* if old_portfolio_value > new_portfolio_value: break
SkipsGrowth(old, new) == old > new

\* (new_portfolio_value - old_portfolio_value) / old_portfolio_value, with the
\* place it was taken from
Growth(idx, k1, k2, old, new) ==
    [idx |-> idx, k1 |-> k1, k2 |-> k2, num |-> new - old, den |-> old]

\* for y2 in res.series[idx + 1].output['yields']: ... (from position k2 on)
RECURSIVE InnerLoop(_, _, _, _, _, _)
InnerLoop(idx, k1, y1, snap2, k2, vp) ==
    IF k2 > Len(snap2) THEN <<>>
    ELSE LET y2 == snap2[k2]
         IN  IF y1.address = y2.address /\ AllNonZero(y2) /\ SameStake(y1, y2)
             THEN LET new == PortfolioValue(y2, vp)
                      old == PortfolioValue(y1, vp)
                  IN  IF SkipsGrowth(old, new)
                      THEN <<>>                                    \* break
                      ELSE <<Growth(idx, k1, k2, old, new)>>       \* append; break
             ELSE InnerLoop(idx, k1, y1, snap2, k2 + 1, vp)        \* continue

\* for y1 in res.series[idx].output['yields']: ... (from position k1 on)
RECURSIVE StakerLoop(_, _, _, _, _)
StakerLoop(idx, snap1, k1, snap2, vp) ==
    IF k1 > Len(snap1) THEN <<>>
    ELSE LET y1 == snap1[k1]
             got == IF AllNonZero(y1)
                    THEN InnerLoop(idx, k1, y1, snap2, 1, vp)
                    ELSE <<>>                                      \* continue
         IN  got \o StakerLoop(idx, snap1, k1 + 1, snap2, vp)

\* range(0, len(res.series) - 1): the pairs (idx, idx + 1), idx counted from 1
LastPairIndex(ser) == Len(ser) - 1

\* for idx in range(0, len(res.series) - 1): ...
RECURSIVE PairLoop(_, _, _)
PairLoop(ser, idx, vp) ==
    IF idx > LastPairIndex(ser) THEN <<>>
    ELSE StakerLoop(idx, ser[idx], 1, ser[idx + 1], vp)
         \o PairLoop(ser, idx + 1, vp)

NoEstimate == [kind |-> "empty"]

\* if len(yields) == 0: return {}
\* avg_yield = sum(yields) / len(yields) * (365 * 86400) / (10 * 86400)
YieldResult(ys) ==
    IF Len(ys) = 0 THEN NoEstimate
    ELSE [kind |-> "crv_yield", samples |-> Len(ys),
          scale_num |-> 365 * 86400, scale_den |-> 10 * 86400]

YieldIdle ==
    /\ ypc = "idle" /\ series = <<>> /\ pool_virtual_price = 0
    /\ yields = <<>> /\ yieldResult = NoEstimate

YieldInit ==
    /\ ypc = "start"
    /\ series \in AllSeries
    /\ pool_virtual_price \in VirtualPrices
    /\ yields = <<>>
    /\ yieldResult = NoEstimate

\* the loops over res.series and the return
EstimateYield ==
    /\ ypc = "start"
    /\ yields' = PairLoop(series, 1, pool_virtual_price)
    /\ yieldResult' = YieldResult(yields')
    /\ ypc' = "done"
    /\ UNCHANGED <<series, pool_virtual_price>>

-----------------------------------------------------------------------------
(* the concentration ratio of pool-info, on vectors of held balances and   *)
(* prices                                                                  *)

MaxAssets    == 3       \* bound: tokens of the pool
MaxHeld      == 3       \* bound: held amounts are 0..MaxHeld
MantissaBits == 3       \* bound: significant bits of a float (binary64: 53)
RatioPrices  == {1, 2}

\* Floating-point values are exact fractions [num, den] in lowest terms;
\* every numpy operation rounds its exact result to MantissaBits significant
\* bits, to nearest, ties to even, as IEEE 754 does with 53.
RECURSIVE Gcd(_, _)
Gcd(a, b) == IF b = 0 THEN a ELSE Gcd(b, a % b)

Frac(num, den) ==
    LET g == Gcd(num, den) IN [num |-> num \div g, den |-> den \div g]

NaN  == [num |-> 0, den |-> 0]
Zero == [num |-> 0, den |-> 1]
One  == [num |-> 1, den |-> 1]

RECURSIVE RoundPos(_, _)
RoundPos(a, b) ==
    IF a >= b * Pow(2, MantissaBits)
    THEN LET r == RoundPos(a, 2 * b) IN Frac(2 * r.num, r.den)
    ELSE IF a < b * Pow(2, MantissaBits - 1)
    THEN LET r == RoundPos(2 * a, b) IN Frac(r.num, 2 * r.den)
    ELSE LET q   == a \div b
             rem == a % b
             up  == 2 * rem > b \/ (2 * rem = b /\ q % 2 = 1)
         IN  Frac(IF up THEN q + 1 ELSE q, 1)

\* the float nearest to num/den (num >= 0, den > 0)
Fl(num, den) == IF num = 0 THEN Zero ELSE RoundPos(num, den)

FlMul(x, y) == Fl(x.num * y.num, x.den * y.den)
FlAdd(x, y) == Fl(x.num * y.den + y.num * x.den, x.den * y.den)
FlDiv(x, y) == IF y.num = 0 THEN NaN ELSE Fl(x.num * y.den, x.den * y.num)
FlPow(x, n) == Fl(Pow(x.num, n), Pow(x.den, n))
FlLess(x, y) == x # NaN /\ y # NaN /\ x.num * y.den < y.num * x.den

\* np.array(balances_token) * np.array(token_prices), element by element
FlNpBalance(bt, prices) ==
    [k \in 1..ZipLen(bt, prices) |-> FlMul(Fl(bt[k], 1), Fl(prices[k], 1))]

\* np_balance.prod(): the elements multiplied in order
RECURSIVE FlProd(_, _)
FlProd(acc, v) == IF v = <<>> THEN acc ELSE FlProd(FlMul(acc, Head(v)), Tail(v))

\* the sum np_balance.mean() divides: the elements added in order
RECURSIVE FlSum(_, _)
FlSum(acc, v) == IF v = <<>> THEN acc ELSE FlSum(FlAdd(acc, Head(v)), Tail(v))

\* ratio = product_balance / np.power(avg_balance, n_asset) as numpy computes
\* it.  The mean of an empty array is nan and np.power(nan, 0) is 1.0.
FloatRatio(np_balance) ==
    LET n_asset         == Len(np_balance)
        product_balance == FlProd(One, np_balance)
        avg_balance     == IF n_asset = 0 THEN NaN
                           ELSE FlDiv(FlSum(Zero, np_balance), Fl(n_asset, 1))
        power           == IF n_asset = 0 THEN One ELSE FlPow(avg_balance, n_asset)
    IN  FlDiv(product_balance, power)

RatioIdle ==
    /\ rpc = "idle" /\ np_held = <<>> /\ np_prices = <<>>
    /\ np_exact = Ratio(<<>>) /\ np_ratio = One

RatioInit ==
    /\ rpc = "start"
    /\ \E n \in 0..MaxAssets :
          /\ np_held \in [1..n -> 0..MaxHeld]
          /\ np_prices \in [1..n -> RatioPrices]
    /\ np_exact = Ratio(<<>>)
    /\ np_ratio = One

\* np_balance = ...; ratio = product_balance / np.power(avg_balance, n_asset)
ComputeRatio ==
    /\ rpc = "start"
    /\ np_exact' = Ratio(NpBalance(np_held, np_prices))
    /\ np_ratio' = FloatRatio(FlNpBalance(np_held, np_prices))
    /\ rpc' = "done"
    /\ UNCHANGED <<np_held, np_prices>>

-----------------------------------------------------------------------------
(* specifications                                                          *)

PoolOnly   == UNCHANGED <<gaugeVars, yieldVars, ratioVars>>

Init == PoolInit /\ GaugeIdle /\ YieldIdle /\ RatioIdle
Next ==
    \/ GetBalances /\ PoolOnly
    \/ Minter /\ PoolOnly
    \/ RunModelRaises /\ PoolOnly
    \/ GetCoins /\ PoolOnly
    \/ GetUnderlyingCoins /\ PoolOnly
    \/ ProbeSlot /\ PoolOnly
    \/ ReadHeldBalances /\ PoolOnly
    \/ PricesAndRatio /\ PoolOnly
    \/ ReadVirtualPrice /\ PoolOnly
    \/ ReadA /\ PoolOnly
    \/ ReadIsMeta /\ PoolOnly
    \/ ReadName /\ PoolOnly
    \/ LpFromRegistry /\ PoolOnly
    \/ LpFromPool /\ PoolOnly
    \/ LpFromPoolInfo /\ PoolOnly
    \/ LpName /\ PoolOnly
    \/ PoolToken /\ PoolOnly
Spec == Init /\ [][Next]_vars

GaugesInit == PoolIdle /\ GaugeInit /\ YieldIdle /\ RatioIdle
GaugesNext == ReadGauge /\ UNCHANGED <<poolVars, yieldVars, ratioVars>>
SpecGauges == GaugesInit /\ [][GaugesNext]_vars

YieldsInit == PoolIdle /\ GaugeIdle /\ YieldInit /\ RatioIdle
YieldsNext == EstimateYield /\ UNCHANGED <<poolVars, gaugeVars, ratioVars>>
SpecYield == YieldsInit /\ [][YieldsNext]_vars

RatiosInit == PoolIdle /\ GaugeIdle /\ YieldIdle /\ RatioInit
RatiosNext == ComputeRatio /\ UNCHANGED <<poolVars, gaugeVars, yieldVars>>
SpecRatio == RatiosInit /\ [][RatiosNext]_vars

-----------------------------------------------------------------------------
(* properties of curve-fi.pool-info, under Spec                            *)

Returned == pc = "done"     \* run() returned a CurveFiPoolInfo

\* C1: every PoolInfo returned has parallel lists of one length:
\* len(tokens) == len(tokens_symbol) == len(balances) == len(balances_token)
\* == len(admin_fees), whichever path produced it.
C1_ParallelLists ==
    Returned =>
        /\ Len(tokens) = Len(tokens_symbol)
        /\ Len(tokens) = Len(balances)
        /\ Len(tokens) = Len(balances_token)
        /\ Len(tokens) = Len(admin_fees)

LpSources == <<"registry", "pool", "pool_info">>

\* C5: the LP-token sources are consulted in the order registry, pool,
\* pool-info registry; a source is consulted only after every earlier one
\* failed; the address returned is the value of the first source that
\* succeeded (null when none did), and a registry value is used as it is,
\* no other source being consulted.
C5_LpFallbackOrder ==
    /\ Len(lpTried) <= Len(LpSources)
    /\ \A k \in 1..Len(lpTried) :
          /\ lpTried[k].src = LpSources[k]
          /\ \A j \in 1..(k - 1) : ~lpTried[j].ok
    /\ Returned =>
          /\ Len(lpTried) >= 1
          /\ \A k \in 1..Len(lpTried) :
                lpTried[k].ok => lp_token_addr = lpTried[k].value
          /\ (\A k \in 1..Len(lpTried) : ~lpTried[k].ok)
                => lp_token_addr = NullAddr
          /\ lpTried[1].ok => Len(lpTried) = 1

\* C5 witness: the first two sources failed and the third one's value is
\* the address returned.
C5_Witness ==
    /\ Returned
    /\ Len(lpTried) = 3
    /\ ~lpTried[1].ok /\ ~lpTried[2].ok /\ lpTried[3].ok
    /\ lp_token_addr = LpLegacy

\* C6: in the direct-introspection fallback the slots are probed at
\* 0, 1, 2, ... in order, no slot is probed after one whose probe was
\* rejected, and no index at or beyond the cap of 8 is probed.
C6_ProbeOrder ==
    /\ \A k \in 1..Len(probes) :
          /\ probes[k].index = k - 1
          /\ probes[k].index < ProbeCap
          /\ probes[k].index <= 8
          /\ k < Len(probes) => ~probes[k].rejected
    /\ probes # <<>> => ~use_registry
    /\ (probes # <<>> /\ probes[Len(probes)].rejected) => pc # "probe"

\* C6 witness: slots 0 and 1 were read, the probe of slot 2 was rejected,
\* and the run returned without probing further.
C6_Witness ==
    /\ Returned
    /\ Len(probes) = 3
    /\ probes[3].rejected
    /\ Len(tokens) = 2

\* C7: the run returns no PoolInfo when no path produced a constituent
\* token.
C7_NoTokensNoPoolInfo == Returned => tokens # <<>>

\* C9 as stated: on the registry path neither token list holds the null
\* address or the native sentinel.
C9_NoNullNoSentinel ==
    (Returned /\ use_registry) =>
        /\ NullAddr \notin Range(tokens) \cup Range(underlying)
        /\ EthAddr \notin Range(tokens) \cup Range(underlying)

NotNull(a) == a # NullAddr

\* C9 amended: on the registry path the token list and the underlying list
\* are the registry's lists without the null addresses, in order; the native
\* sentinel is kept, with the symbol 'ETH', and the symbol lists are parallel.
C9_NullDroppedSentinelKept ==
    (Returned /\ use_registry) =>
        /\ tokens = SelectSeq(coins, NotNull)
        /\ underlying = SelectSeq(underlying_coins, NotNull)
        /\ Len(tokens_symbol) = Len(tokens)
        /\ Len(underlying_symbol) = Len(underlying)
        /\ \A k \in 1..Len(tokens) :
              tokens_symbol[k] = "ETH" <=> tokens[k] = EthAddr
        /\ \A k \in 1..Len(underlying) :
              underlying_symbol[k] = "ETH" <=> underlying[k] = EthAddr

\* C9 witness: the registry gave a null address and the sentinel; the run
\* returned with the sentinel in both lists.
C9_Witness ==
    /\ Returned /\ use_registry
    /\ NullAddr \in Range(coins) /\ EthAddr \in Range(coins)
    /\ NullAddr \in Range(underlying_coins)
    /\ EthAddr \in Range(tokens) /\ EthAddr \in Range(underlying)

BestEffortReads ==
    {"get_virtual_price", "A", "name", "get_lp_token", "lp_token",
     "get_pool_info", "token"}

\* C10: no failure of a best-effort read (virtual price, A, name, the three
\* LP-token sources, pool token) leaves run() as an exception.
C10_BestEffortNeverAborts == pc = "raised" => exc.site \notin BestEffortReads

-----------------------------------------------------------------------------
(* properties of curve-fi.all-gauges, under SpecGauges                     *)

\* the first index whose slot holds the null address
FirstNull(slots) ==
    CHOOSE k \in 0..Len(slots) :
        /\ GaugeAt(slots, k) = NullAddr
        /\ \A j \in 0..(k - 1) : GaugeAt(slots, j) # NullAddr

\* C2: the slots are read at 0, 1, 2, ... in order, none after the first
\* null one, and the gauges returned are exactly those before it, in order.
C2_GaugeEnumeration ==
    /\ \A k \in 1..Len(gaugeReads) :
          /\ gaugeReads[k] = k - 1
          /\ gaugeReads[k] <= FirstNull(gaugeSlots)
    /\ gpc = "done" =>
          /\ gauges = SubSeq(gaugeSlots, 1, FirstNull(gaugeSlots))
          /\ Len(gaugeReads) = FirstNull(gaugeSlots) + 1

\* C2 witness: two different gauges, a null slot, then a set slot that is
\* not returned.
C2_Witness ==
    /\ gpc = "done"
    /\ Len(gauges) = 2 /\ gauges[1] # gauges[2]
    /\ GaugeAt(gaugeSlots, 3) # NullAddr

-----------------------------------------------------------------------------
(* properties of curve-fi.gauge-yield, under SpecYield                     *)

NonZeroSample(y) ==
    y.working_balances # 0 /\ y.balanceOf # 0 /\ y.claimable_tokens # 0

\* positions (k1, k2) of a staker of snapshot idx and the same staker of
\* snapshot idx + 1, all three fields nonzero in both, same staked balance
Matched(ser, idx, k1, k2) ==
    /\ ser[idx][k1].address = ser[idx + 1][k2].address
    /\ NonZeroSample(ser[idx][k1])
    /\ NonZeroSample(ser[idx + 1][k2])
    /\ ser[idx][k1].balanceOf = ser[idx + 1][k2].balanceOf

PairHasMatch(ser, idx) ==
    \E k1 \in 1..Len(ser[idx]), k2 \in 1..Len(ser[idx + 1]) :
        Matched(ser, idx, k1, k2)

\* C3: a series of one snapshot, and a series none of whose consecutive
\* pairs has a matched staker, give NoEstimate.
C3_NoEstimate ==
    ypc = "done" =>
        ((Len(series) <= 1 \/ \A idx \in 1..(Len(series) - 1) :
                                  ~PairHasMatch(series, idx))
            => yieldResult = NoEstimate)

\* C3 witness: three snapshots, a staker present with nonzero fields in two
\* consecutive ones but with a different staked balance, and no estimate.
C3_Witness ==
    /\ ypc = "done"
    /\ Len(series) = 3
    /\ \A idx \in 1..2 : ~PairHasMatch(series, idx)
    /\ \E idx \in 1..2 :
          \E k1 \in 1..Len(series[idx]), k2 \in 1..Len(series[idx + 1]) :
             /\ series[idx][k1].address = series[idx + 1][k2].address
             /\ NonZeroSample(series[idx][k1])
             /\ NonZeroSample(series[idx + 1][k2])
    /\ yieldResult = NoEstimate

OldValue(ser, idx, k1) == PortfolioValue(ser[idx][k1], pool_virtual_price)
NewValue(ser, idx, k2) == PortfolioValue(ser[idx + 1][k2], pool_virtual_price)
SamplesOf(idx, k1) ==
    {n \in 1..Len(yields) : yields[n].idx = idx /\ yields[n].k1 = k1}
SamplesFrom(idx, k1) ==
    {n \in 1..Len(yields) : yields[n].idx = idx /\ yields[n].k1 >= k1}

\* C8 as stated: once a matched staker of a pair has a new value less than or
\* equal to its old value, neither that staker nor any later staker of the
\* snapshot gives a growth sample for the pair.
C8_StopsWholePair ==
    ypc = "done" =>
        \A idx \in 1..(Len(series) - 1) :
            \A k1 \in 1..Len(series[idx]), k2 \in 1..Len(series[idx + 1]) :
                (/\ Matched(series, idx, k1, k2)
                 /\ NewValue(series, idx, k2) <= OldValue(series, idx, k1))
                    => SamplesFrom(idx, k1) = {}

\* C8 amended: a matched staker whose new value is strictly less than its old
\* value gives no growth sample for the pair; every other matched staker of
\* the snapshot, later ones included, gives exactly one (a growth of 0 when
\* the two values are equal).
C8_SkipsOnlyThatStaker ==
    ypc = "done" =>
        \A idx \in 1..(Len(series) - 1) :
            \A k1 \in 1..Len(series[idx]), k2 \in 1..Len(series[idx + 1]) :
                Matched(series, idx, k1, k2) =>
                    IF NewValue(series, idx, k2) < OldValue(series, idx, k1)
                    THEN SamplesOf(idx, k1) = {}
                    ELSE Cardinality(SamplesOf(idx, k1)) = 1

\* C8 witness: the first staker of a pair lost value and gave no sample, the
\* second staker of the same pair gave one.
C8_Witness ==
    /\ ypc = "done"
    /\ \E idx \in 1..(Len(series) - 1) :
          /\ Len(series[idx]) = 2
          /\ \E k2 \in 1..Len(series[idx + 1]) :
                /\ Matched(series, idx, 1, k2)
                /\ NewValue(series, idx, k2) < OldValue(series, idx, 1)
          /\ SamplesOf(idx, 1) = {}
          /\ SamplesOf(idx, 2) # {}

\* C11: every growth sample comes from a consecutive pair (idx, idx + 1) and
\* from a staker of snapshot idx found in snapshot idx + 1 with the same
\* address, working balance, staked balance and claimable tokens nonzero in
\* both and the same staked balance; its value is (new - old) / old of that
\* match; and a staker entry of snapshot idx gives at most one sample per pair.
C11_SamplesFromMatchedPairs ==
    ypc = "done" =>
        /\ \A n \in 1..Len(yields) :
              /\ yields[n].idx \in 1..(Len(series) - 1)
              /\ yields[n].k1 \in 1..Len(series[yields[n].idx])
              /\ yields[n].k2 \in 1..Len(series[yields[n].idx + 1])
              /\ Matched(series, yields[n].idx, yields[n].k1, yields[n].k2)
              /\ yields[n].den = OldValue(series, yields[n].idx, yields[n].k1)
              /\ yields[n].num = NewValue(series, yields[n].idx, yields[n].k2)
                                   - OldValue(series, yields[n].idx, yields[n].k1)
        /\ \A idx \in 1..(Len(series) - 1) :
              \A k1 \in 1..Len(series[idx]) :
                 Cardinality(SamplesOf(idx, k1)) <= 1

\* C11 witness: growth samples from two different pairs, one of them from a
\* staker that sits at different positions in its two snapshots, while another
\* staker present in both snapshots of a pair gave none.
C11_Witness ==
    /\ ypc = "done"
    /\ \E n, m \in 1..Len(yields) :
          /\ yields[n].idx # yields[m].idx
          /\ yields[n].k1 # yields[n].k2
          /\ Matched(series, yields[n].idx, yields[n].k1, yields[n].k2)
          /\ \E j1 \in 1..Len(series[yields[m].idx]),
                j2 \in 1..Len(series[yields[m].idx + 1]) :
                /\ series[yields[m].idx][j1].address
                       = series[yields[m].idx + 1][j2].address
                /\ ~Matched(series, yields[m].idx, j1, j2)
                /\ SamplesOf(yields[m].idx, j1) = {}

-----------------------------------------------------------------------------
(* properties of the concentration ratio, under SpecRatio                  *)

UsdValues == NpBalance(np_held, np_prices)
AllPositive(v) == \A k \in 1..Len(v) : v[k] > 0
AllEqual(v) == \A j, k \in 1..Len(v) : v[j] = v[k]

\* the exact fraction r against 1: prod * div^n against sum^n
ExactIsOne(r)   == r.prod * Pow(r.div, r.n) = Pow(r.sum, r.n)
ExactBelowOne(r) == r.prod * Pow(r.div, r.n) < Pow(r.sum, r.n)

====
